---- MODULE Spec2Model ----
(***************************************************************************)
(* The playbook orchestrator of lib/ansible/playbook/__init__.py           *)
(* (class PlayBook): run(), _run_play, _do_setup_step, _run_task,          *)
(* _run_task_internal, _async_poll and _flag_handler, as one sequential    *)
(* process whose position is pc.  Runner, Poller, Inventory, Stats and     *)
(* Play are collaborators that are not part of the file; they are modelled *)
(* by their documented contracts.                                          *)
(***************************************************************************)
EXTENDS Integers, Sequences, FiniteSets, TLC

\* ------------------------------------------------------------------ bounds
\* the longest playbook (number of plays) that Init draws
MaxPlays == 2

\* ------------------------------------------------------------------ inputs
\* the inventory, in the order Inventory.list_hosts() returns it
InventoryHosts == <<"h1", "h2">>

Range(s) == { s[i] : i \in DOMAIN s }

AllHosts == Range(InventoryHosts)

\* a map with no key (an empty dict)
EmptyMap == [k \in {} |-> "v1"]

\* the ansible_facts the setup module returns, and those a task module returns
SetupFacts == [k \in {"k1", "k2"} |-> "v1"]

TaskFacts == [k \in {"k1"} |-> "v2"]

\* the per-host result records of the Runner: changed?, failed?, ansible_facts?
PlainResults ==
    { [changed |-> c] : c \in BOOLEAN } \cup { [changed |-> FALSE, failed |-> 1] }

\* what a host may answer to the setup module, and to the module of a task
SetupResults == PlainResults \cup { [changed |-> FALSE, ansible_facts |-> SetupFacts] }

FactResults == PlainResults \cup { [changed |-> FALSE, ansible_facts |-> TaskFacts] }

\* what a host may answer to the module of a task: only a module that gathers
\* facts returns ansible_facts
TaskResults(module_name) ==
    IF module_name = "facter" THEN FactResults ELSE PlainResults

\* a results structure { contacted: host -> result, dark: host -> reason }
NoResults == [contacted |-> [h \in {} |-> [changed |-> FALSE]], dark |-> {}]

\* every outcome of one Runner invocation over the dispatched hosts: each host
\* reports a result (contacted) or is unreachable (dark)
RunnerOutcomes(hosts, HostResults) ==
    { [contacted |-> c, dark |-> hosts \ DOMAIN c] :
        c \in UNION { [D -> HostResults] : D \in SUBSET hosts } }

\* ---------------------------------------------------------------- playbooks
NoVars == [k \in {} |-> "H1"]

Task(name, module_name, notify, module_vars, async_seconds, async_poll_interval) ==
    [name |-> name, module_name |-> module_name, notify |-> notify,
     module_vars |-> module_vars,
     async_seconds |-> async_seconds, async_poll_interval |-> async_poll_interval]

Handler(name, notify) == Task(name, "service", notify, NoVars, 0, 0)

\* two tasks notify the same handler on two hosts
PlayNotify ==
    [name |-> "notify", hosts |-> {"h1", "h2"}, vars_files |-> <<>>,
     tasks |-> << Task("T1", "command", <<"H1">>, NoVars, 0, 0),
                  Task("T2", "command", <<"H1">>, NoVars, 0, 0) >>,
     handlers |-> << Handler("H1", <<>>) >>]

\* a task notifies the last handler, through a template variable, before the
\* one declared ahead of it; the last handler notifies the first, which no
\* task notifies; vars_files is present
PlayOrder ==
    [name |-> "order", hosts |-> {"h1"}, vars_files |-> <<"$os.yml">>,
     tasks |-> << Task("T1", "command", <<"$svc", "H1">>,
                       [k \in {"$svc"} |-> "H2"], 0, 0) >>,
     handlers |-> << Handler("H0", <<>>), Handler("H1", <<>>),
                     Handler("H2", <<"H0">>) >>]

\* a polled async task and a fire-and-forget async task; the handler notifies
\* a name no handler has
PlayAsync ==
    [name |-> "async", hosts |-> {"h2"}, vars_files |-> <<>>,
     tasks |-> << Task("T1", "command", <<"H1">>, NoVars, 10, 2),
                  Task("T2", "command", <<>>, NoVars, 10, 0) >>,
     handlers |-> << Handler("H1", <<"X">>) >>]

\* a task that notifies a defined handler and then an undefined one
PlayUndefined ==
    [name |-> "undefined", hosts |-> {"h1"}, vars_files |-> <<>>,
     tasks |-> << Task("T1", "command", <<"H1", "X">>, NoVars, 0, 0),
                  Task("T2", "command", <<>>, NoVars, 0, 0) >>,
     handlers |-> << Handler("H1", <<>>) >>]

\* no task and no handler
PlayEmpty ==
    [name |-> "empty", hosts |-> {"h1", "h2"}, vars_files |-> <<"$os.yml">>,
     tasks |-> <<>>, handlers |-> <<>>]

\* a task that gathers facts
PlayFacts ==
    [name |-> "facts", hosts |-> {"h1", "h2"}, vars_files |-> <<>>,
     tasks |-> << Task("T1", "facter", <<>>, NoVars, 0, 0),
                  Task("T2", "command", <<>>, NoVars, 0, 0) >>,
     handlers |-> <<>>]

Plays ==
    { PlayNotify, PlayOrder, PlayAsync, PlayUndefined, PlayEmpty, PlayFacts }

Playbooks == UNION { [1..n -> Plays] : n \in 1..MaxPlays }

\* ------------------------------------------------------------------- state
VARIABLES
    playbook,       \* self.playbook: the sequence of plays
    pc,             \* the position of run()
    playIdx,        \* the play of the loop of run()
    taskIdx,        \* the task of the task loop of _run_play
    handlerIdx,     \* the handler of the handler loop of _run_play
    is_handler,     \* the is_handler argument of the _run_task in progress
    vars_files,     \* whether the setup step in progress is the secondary one
    SETUP_CACHE,    \* self.SETUP_CACHE: host -> (name -> value)
    stats,          \* self.stats: the sets failures, dark and processed
    restrictions,   \* the restriction stack of self.inventory
    results,        \* the local variable results / setup_results
    hosts_to_poll,  \* poller.hosts_to_poll
    notified_by,    \* handler.notified_by of every handler of the play
    events,         \* the playbook callbacks fired so far
    on_failed,      \* the calls of runner_callbacks.on_failed per host, likewise
    computeCalls,   \* the calls of stats.compute since the last on_task_start
    pollerCalls,    \* the calls of poller.wait since the last on_task_start
    error,          \* the exception that ended run(), if any
    run_results     \* the value run() returned

vars == << playbook, pc, playIdx, taskIdx, handlerIdx, is_handler, vars_files,
           SETUP_CACHE, stats, restrictions, results, hosts_to_poll,
           notified_by, events, on_failed, computeCalls, pollerCalls, error,
           run_results >>

NoError == [type |-> "none", msg |-> ""]

EmptyCache == [h \in {} |-> EmptyMap]

NoSummary == [h \in {} |-> [failed |-> FALSE, unreachable |-> FALSE]]

Init ==
    /\ playbook \in Playbooks
    /\ pc = "start"
    /\ playIdx = 1
    /\ taskIdx = 1
    /\ handlerIdx = 1
    /\ is_handler = FALSE
    /\ vars_files = FALSE
    /\ SETUP_CACHE = EmptyCache
    /\ stats = [failures |-> {}, dark |-> {}, processed |-> {}]
    /\ restrictions = <<>>
    /\ results = NoResults
    /\ hosts_to_poll = {}
    /\ notified_by = <<>>
    /\ events = <<>>
    /\ on_failed = [h \in AllHosts |-> 0]
    /\ computeCalls = 0
    /\ pollerCalls = 0
    /\ error = NoError
    /\ run_results = NoSummary

\* ----------------------------------------------------------- collaborators
\* Inventory: the hosts the top restriction lets through
Restricted(h) ==
    \/ restrictions = <<>>
    \/ h \in Range(restrictions[Len(restrictions)])

\* Inventory.list_hosts(): every host of the inventory, under the restriction
list_hosts == SelectSeq(InventoryHosts, Restricted)

\* Inventory.list_hosts(pattern): the hosts matching the pattern
list_hosts_pattern(pattern) ==
    SelectSeq(InventoryHosts, LAMBDA h : h \in pattern /\ Restricted(h))

\* Inventory.restrict_to(hosts) and Inventory.lift_restriction()
restrict_to(hosts) == Append(restrictions, hosts)

lift_restriction ==
    IF restrictions = <<>> THEN restrictions
    ELSE SubSeq(restrictions, 1, Len(restrictions) - 1)

\* Stats.compute: a contacted host that reports failed joins failures, an
\* unreachable host joins dark, every host of the results is processed
IsFailed(r) == "failed" \in DOMAIN r /\ r.failed = 1

compute(st, res) ==
    [failures  |-> st.failures \cup
                     { h \in DOMAIN res.contacted : IsFailed(res.contacted[h]) },
     dark      |-> st.dark \cup res.dark,
     processed |-> st.processed \cup DOMAIN res.contacted \cup res.dark]

\* Stats.summarize(host)
summarize(host) ==
    [failed |-> host \in stats.failures, unreachable |-> host \in stats.dark]

\* utils.template(text, vars): a variable reference is replaced by its value
template(text, module_vars) ==
    IF text \in DOMAIN module_vars THEN module_vars[text] ELSE text

\* AsyncPoller: the hosts whose job started are polled; the results of the
\* others are carried over
Started(res) ==
    { h \in DOMAIN res.contacted : ~IsFailed(res.contacted[h]) }

\* Poller.wait: every polled host finishes with a result, becomes unreachable,
\* or is still listed in hosts_to_poll when the deadline passes
PollerOutcomes(initial, module_name) ==
    UNION {
      { [results |-> [contacted |->
                        [h \in (DOMAIN initial.contacted \ Started(initial))
                                  \cup DOMAIN fin |->
                           IF h \in DOMAIN fin THEN fin[h]
                           ELSE initial.contacted[h]],
                      dark |-> initial.dark \cup gone],
          hosts_to_poll |-> (Started(initial) \ DOMAIN fin) \ gone] :
          gone \in SUBSET (Started(initial) \ DOMAIN fin) } :
      fin \in UNION { [D -> TaskResults(module_name)] :
                         D \in SUBSET Started(initial) } }

\* ------------------------------------------------------------------- Play
play == playbook[playIdx]

\* a faulty variant: the handlers are visited last to first
HandlerOrderReversed(handlers) ==
    [i \in DOMAIN handlers |-> Len(handlers) + 1 - i]

\* the order in which "for handler in play.handlers()" visits the handlers
HandlerOrder(handlers) == [i \in DOMAIN handlers |-> i]

\* the handler of the current iteration of the handler loop
handler == HandlerOrder(play.handlers)[handlerIdx]

\* the task or handler that _run_task is running
task ==
    IF is_handler THEN play.handlers[handler] ELSE play.tasks[taskIdx]

Event(ev, name, h) ==
    [ev |-> ev, play |-> playIdx, name |-> name, is_handler |-> h]

\* --------------------------------------------------------------- run()
\* run: on_start, then the loop over the plays
Start ==
    /\ pc = "start"
    /\ pc' = "play_loop"
    /\ UNCHANGED << playbook, playIdx, taskIdx, handlerIdx, is_handler,
                    vars_files, SETUP_CACHE, stats, restrictions, results,
                    hosts_to_poll, notified_by, events, on_failed,
                    computeCalls, pollerCalls, error, run_results >>

\* a faulty variant: the cache of the play before is kept
PlayCacheKept(cache) == cache

\* the cache a play starts with: self.SETUP_CACHE = {}
PlayCache(cache) == EmptyCache

\* run: the next play: the cache is cleared, the Play is built (its handlers
\* notified by nobody) and _run_play fires on_play_start
PlayStart ==
    /\ pc = "play_loop"
    /\ playIdx <= Len(playbook)
    /\ SETUP_CACHE' = PlayCache(SETUP_CACHE)
    /\ notified_by' = [i \in DOMAIN play.handlers |-> <<>>]
    /\ events' = Append(events, Event("on_play_start", play.name, FALSE))
    /\ taskIdx' = 1
    /\ handlerIdx' = 1
    /\ vars_files' = FALSE
    /\ pc' = "setup"
    /\ UNCHANGED << playbook, playIdx, is_handler, stats, restrictions,
                    results, hosts_to_poll, on_failed, computeCalls,
                    pollerCalls, error, run_results >>

\* run: after the last play the results are summarized and returned
Summarize ==
    /\ pc = "play_loop"
    /\ playIdx > Len(playbook)
    /\ run_results' = [h \in stats.processed |-> summarize(h)]
    /\ pc' = "done"
    /\ UNCHANGED << playbook, playIdx, taskIdx, handlerIdx, is_handler,
                    vars_files, SETUP_CACHE, stats, restrictions, results,
                    hosts_to_poll, notified_by, events, on_failed,
                    computeCalls, pollerCalls, error >>

\* ------------------------------------------------------- _do_setup_step
\* a faulty variant: the failed hosts are not filtered out
SetupHostListFailedKept ==
    SelectSeq(list_hosts_pattern(play.hosts), LAMBDA h : h \notin stats.dark)

\* the hosts of the setup step: the pattern's hosts that are neither failed
\* nor dark
SetupHostList ==
    SelectSeq(list_hosts_pattern(play.hosts),
              LAMBDA h : ~(h \in stats.failures \/ h \in stats.dark))

\* _do_setup_step up to the Runner call: the callback and the restriction
SetupBegin ==
    /\ pc = "setup"
    /\ events' = Append(events,
                    Event(IF vars_files THEN "on_setup_secondary"
                          ELSE "on_setup_primary", play.name, FALSE))
    /\ restrictions' = restrict_to(SetupHostList)
    /\ pc' = "setup_runner"
    /\ UNCHANGED << playbook, playIdx, taskIdx, handlerIdx, is_handler,
                    vars_files, SETUP_CACHE, stats, results, hosts_to_poll,
                    notified_by, on_failed, computeCalls, pollerCalls, error,
                    run_results >>

\* the Runner of the setup module returns
SetupRunner ==
    /\ pc = "setup_runner"
    /\ results' \in RunnerOutcomes(Range(list_hosts_pattern(play.hosts)), SetupResults)
    /\ pc' = "setup_fold"
    /\ UNCHANGED << playbook, playIdx, taskIdx, handlerIdx, is_handler,
                    vars_files, SETUP_CACHE, stats, restrictions,
                    hosts_to_poll, notified_by, events, on_failed,
                    computeCalls, pollerCalls, error, run_results >>

\* a faulty variant: every contacted host gets an entry, an empty one when it
\* returned no facts
SetupCacheEveryContacted(cache, setup_results, secondary) ==
    IF secondary THEN cache
    ELSE LET setup_ok == setup_results.contacted
         IN  [h \in DOMAIN cache \cup DOMAIN setup_ok |->
                IF "ansible_facts" \in DOMAIN setup_ok[h]
                THEN setup_ok[h].ansible_facts ELSE EmptyMap]

\* a faulty variant: every host of the results gets an entry, an empty one
\* when it was dark
SetupCacheEveryHost(cache, setup_results, secondary) ==
    IF secondary THEN cache
    ELSE LET setup_ok == setup_results.contacted
             got == { h \in DOMAIN setup_ok :
                        "ansible_facts" \in DOMAIN setup_ok[h] }
         IN  [h \in DOMAIN cache \cup got \cup setup_results.dark |->
                IF h \in got THEN setup_ok[h].ansible_facts
                ELSE IF h \in DOMAIN cache THEN cache[h] ELSE EmptyMap]

\* a faulty variant: the second pass stores the returned facts too
SetupCacheEveryPass(cache, setup_results, secondary) ==
    LET setup_ok == setup_results.contacted
        got == { h \in DOMAIN setup_ok :
                   "ansible_facts" \in DOMAIN setup_ok[h] }
    IN  [h \in DOMAIN cache \cup got |->
           IF h \in got THEN setup_ok[h].ansible_facts ELSE cache[h]]

\* the cache after a setup step: the first pass stores the returned facts of
\* every contacted host, the second pass stores nothing
SetupCache(cache, setup_results, secondary) ==
    IF secondary THEN cache
    ELSE LET setup_ok == setup_results.contacted
             got == { h \in DOMAIN setup_ok :
                        "ansible_facts" \in DOMAIN setup_ok[h] }
         IN  [h \in DOMAIN cache \cup got |->
                IF h \in got THEN setup_ok[h].ansible_facts ELSE cache[h]]

\* a faulty variant: the secondary setup step is run whether or not the play
\* has vars_files
AfterSetupAlwaysSecondary(secondary) ==
    IF ~secondary THEN "setup" ELSE "task_loop"

\* the step of _run_play after a setup step
AfterSetup(secondary) ==
    IF ~secondary /\ Len(play.vars_files) > 0 THEN "setup" ELSE "task_loop"

\* _do_setup_step after the Runner call: the fold, the lift, the cache
SetupFold ==
    /\ pc = "setup_fold"
    /\ stats' = compute(stats, results)
    /\ restrictions' = lift_restriction
    /\ SETUP_CACHE' = SetupCache(SETUP_CACHE, results, vars_files)
    /\ pc' = AfterSetup(vars_files)
    /\ vars_files' = (AfterSetup(vars_files) = "setup")
    /\ results' = NoResults
    /\ UNCHANGED << playbook, playIdx, taskIdx, handlerIdx, is_handler,
                    hosts_to_poll, notified_by, events, on_failed,
                    computeCalls, pollerCalls, error, run_results >>

\* ------------------------------------------------------------ _run_play
\* the task loop of _run_play: the next task is run
TaskNext ==
    /\ pc = "task_loop"
    /\ taskIdx <= Len(play.tasks)
    /\ is_handler' = FALSE
    /\ pc' = "task_start"
    /\ UNCHANGED << playbook, playIdx, taskIdx, handlerIdx, vars_files,
                    SETUP_CACHE, stats, restrictions, results, hosts_to_poll,
                    notified_by, events, on_failed, computeCalls, pollerCalls,
                    error, run_results >>

\* the task loop is over: the handler loop begins
TasksDone ==
    /\ pc = "task_loop"
    /\ taskIdx > Len(play.tasks)
    /\ handlerIdx' = 1
    /\ pc' = "handler_loop"
    /\ UNCHANGED << playbook, playIdx, taskIdx, is_handler, vars_files,
                    SETUP_CACHE, stats, restrictions, results, hosts_to_poll,
                    notified_by, events, on_failed, computeCalls, pollerCalls,
                    error, run_results >>

\* a faulty variant: one notification is not enough
ShouldRunMany(notified) == Len(notified) > 1

\* whether the handler loop runs a handler
ShouldRun(notified) == Len(notified) > 0

\* the handler loop: a notified handler is run under a restriction to the
\* hosts that notified it
HandlerRun ==
    /\ pc = "handler_loop"
    /\ handlerIdx <= Len(play.handlers)
    /\ ShouldRun(notified_by[handler])
    /\ restrictions' = restrict_to(notified_by[handler])
    /\ is_handler' = TRUE
    /\ pc' = "task_start"
    /\ UNCHANGED << playbook, playIdx, taskIdx, handlerIdx, vars_files,
                    SETUP_CACHE, stats, results, hosts_to_poll, notified_by,
                    events, on_failed, computeCalls, pollerCalls, error,
                    run_results >>

\* the handler loop: a handler nobody notified is passed over
HandlerSkip ==
    /\ pc = "handler_loop"
    /\ handlerIdx <= Len(play.handlers)
    /\ ~ShouldRun(notified_by[handler])
    /\ handlerIdx' = handlerIdx + 1
    /\ UNCHANGED << playbook, pc, playIdx, taskIdx, is_handler, vars_files,
                    SETUP_CACHE, stats, restrictions, results, hosts_to_poll,
                    notified_by, events, on_failed, computeCalls, pollerCalls,
                    error, run_results >>

\* the handler loop is over: _run_play returns and run() takes the next play
PlayEnd ==
    /\ pc = "handler_loop"
    /\ handlerIdx > Len(play.handlers)
    /\ playIdx' = playIdx + 1
    /\ pc' = "play_loop"
    /\ UNCHANGED << playbook, taskIdx, handlerIdx, is_handler, vars_files,
                    SETUP_CACHE, stats, restrictions, results, hosts_to_poll,
                    notified_by, events, on_failed, computeCalls, pollerCalls,
                    error, run_results >>

\* --------------------------------------------------- _run_task_internal
\* a faulty variant: the dark hosts are not filtered out
TaskHostsDarkKept ==
    SelectSeq(list_hosts, LAMBDA h : h \notin stats.failures)

\* the hosts of a task: the listed hosts that are neither failed nor dark
TaskHosts ==
    SelectSeq(list_hosts,
              LAMBDA h : (h \notin stats.failures) /\ (h \notin stats.dark))

\* _run_task up to the Runner call: on_task_start, then the restriction of
\* _run_task_internal
TaskStart ==
    /\ pc = "task_start"
    /\ events' = Append(events, Event("on_task_start", task.name, is_handler))
    /\ restrictions' = restrict_to(TaskHosts)
    /\ results' = NoResults
    /\ hosts_to_poll' = {}
    /\ computeCalls' = 0
    /\ pollerCalls' = 0
    /\ on_failed' = [h \in AllHosts |-> 0]
    /\ pc' = "runner"
    /\ UNCHANGED << playbook, playIdx, taskIdx, handlerIdx, is_handler,
                    vars_files, SETUP_CACHE, stats, notified_by, error,
                    run_results >>

\* the hosts the Runner of the task runs against: the pattern of the play,
\* under the restriction
DispatchSet == Range(list_hosts_pattern(play.hosts))

\* a synchronous task: runner.run() returns the final results
RunnerRun ==
    /\ pc = "runner"
    /\ task.async_seconds = 0
    /\ results' \in RunnerOutcomes(DispatchSet, TaskResults(task.module_name))
    /\ pc' = "returned"
    /\ UNCHANGED << playbook, playIdx, taskIdx, handlerIdx, is_handler,
                    vars_files, SETUP_CACHE, stats, restrictions,
                    hosts_to_poll, notified_by, events, on_failed,
                    computeCalls, pollerCalls, error, run_results >>

\* whether an async task is polled
Polls(t) == t.async_poll_interval > 0

\* an async task: runner.run_async() returns the initial results and a
\* poller
RunnerRunAsync ==
    /\ pc = "runner"
    /\ task.async_seconds # 0
    /\ results' \in RunnerOutcomes(DispatchSet, TaskResults(task.module_name))
    /\ hosts_to_poll' = Started(results')
    /\ pc' = "async_fold"
    /\ UNCHANGED << playbook, playIdx, taskIdx, handlerIdx, is_handler,
                    vars_files, SETUP_CACHE, stats, restrictions, notified_by,
                    events, on_failed, computeCalls, pollerCalls, error,
                    run_results >>

\* the initial results of an async task are folded into the stats; a task
\* with a poll interval is polled next
AsyncFold ==
    /\ pc = "async_fold"
    /\ stats' = compute(stats, results)
    /\ computeCalls' = computeCalls + 1
    /\ pc' = IF Polls(task) THEN "poll" ELSE "returned"
    /\ UNCHANGED << playbook, playIdx, taskIdx, handlerIdx, is_handler,
                    vars_files, SETUP_CACHE, restrictions, results,
                    hosts_to_poll, notified_by, events, on_failed,
                    pollerCalls, error, run_results >>

\* the result synthesized for a host that never reported
reason == [failed |-> 1, rc |-> "None", msg |-> "timed out"]

\* a faulty variant: no host is marked
TimedOutNone(poller_hosts) == {}

\* the hosts _async_poll marks as failed
TimedOut(poller_hosts) == poller_hosts

\* the results _async_poll returns: those of poller.wait, and the reason for
\* every host that is still polled
MarkTimedOut(res, poller_hosts) ==
    [res EXCEPT !.contacted =
        [h \in DOMAIN res.contacted \cup TimedOut(poller_hosts) |->
           IF h \in TimedOut(poller_hosts) THEN reason ELSE res.contacted[h]]]

\* _async_poll: poller.wait returns, and every host still polled is reported
\* failed
AsyncPoll ==
    /\ pc = "poll"
    /\ \E o \in PollerOutcomes(results, task.module_name) :
          /\ hosts_to_poll' = o.hosts_to_poll
          /\ results' = MarkTimedOut(o.results, o.hosts_to_poll)
          /\ on_failed' = [h \in AllHosts |->
                             IF h \in TimedOut(o.hosts_to_poll)
                             THEN on_failed[h] + 1 ELSE on_failed[h]]
    /\ pollerCalls' = pollerCalls + 1
    /\ pc' = "returned"
    /\ UNCHANGED << playbook, playIdx, taskIdx, handlerIdx, is_handler,
                    vars_files, SETUP_CACHE, stats, restrictions, notified_by,
                    events, computeCalls, error, run_results >>

\* ------------------------------------------------------------- _run_task
\* the contacted hosts whose result carries ansible_facts
WithFacts(res) ==
    { h \in DOMAIN res.contacted : "ansible_facts" \in DOMAIN res.contacted[h] }

\* SETUP_CACHE[host][k] = v for every (k, v) of the facts
MergeFacts(entry, facts) ==
    [k \in DOMAIN entry \cup DOMAIN facts |->
       IF k \in DOMAIN facts THEN facts[k] ELSE entry[k]]

\* the hosts for which SETUP_CACHE[host][k] = v raises KeyError: a fact is
\* to be stored and the cache has no entry for the host
NoEntry(cache, res) ==
    { h \in WithFacts(res) :
        h \notin DOMAIN cache /\ DOMAIN res.contacted[h].ansible_facts # {} }

\* a faulty variant: the facts are not stored
MergeIntoNothing(cache, res, done) == cache

\* the cache after the facts of the hosts in done were merged
MergeInto(cache, res, done) ==
    [h \in DOMAIN cache |->
       IF h \in done THEN MergeFacts(cache[h], res.contacted[h].ansible_facts)
       ELSE cache[h]]

\* _run_task_internal lifts its restriction and returns; the facts of the
\* results are added to the cache and the results are folded into the stats
TaskFold ==
    /\ pc = "returned"
    /\ restrictions' = lift_restriction
    /\ NoEntry(SETUP_CACHE, results) = {}
    /\ SETUP_CACHE' = MergeInto(SETUP_CACHE, results,
                                WithFacts(results) \cap DOMAIN SETUP_CACHE)
    /\ stats' = compute(stats, results)
    /\ computeCalls' = computeCalls + 1
    /\ pc' = "notify"
    /\ UNCHANGED << playbook, playIdx, taskIdx, handlerIdx, is_handler,
                    vars_files, results, hosts_to_poll, notified_by, events,
                    on_failed, pollerCalls, error, run_results >>

\* _run_task_internal lifts its restriction and returns; the merge reaches a
\* host without an entry: KeyError leaves run(), after the hosts the loop
\* visited before it were merged
FactMergeKeyError ==
    /\ pc = "returned"
    /\ restrictions' = lift_restriction
    /\ \E h \in NoEntry(SETUP_CACHE, results) :
       \E done \in SUBSET (WithFacts(results) \cap DOMAIN SETUP_CACHE) :
          /\ SETUP_CACHE' = MergeInto(SETUP_CACHE, results, done)
          /\ error' = [type |-> "KeyError", msg |-> h]
    /\ pc' = "error"
    /\ UNCHANGED << playbook, playIdx, taskIdx, handlerIdx, is_handler,
                    vars_files, stats, results, hosts_to_poll, notified_by,
                    events, on_failed, computeCalls, pollerCalls, run_results >>

\* results.get('changed', False)
Changed(r) == "changed" \in DOMAIN r /\ r.changed

\* a faulty variant: every contacted host notifies
NotifyHostsAll(res) == DOMAIN res.contacted

\* the hosts whose result makes _run_task flag the handlers of task.notify
NotifyHosts(res) ==
    { h \in DOMAIN res.contacted : Changed(res.contacted[h]) }

\* a faulty variant: found is never checked
FoundAlways(handlers, handler_name) == TRUE

\* _flag_handler: whether a handler has the name
Found(handlers, handler_name) ==
    \E i \in DOMAIN handlers : handlers[i].name = handler_name

\* _flag_handler: the host is appended to notified_by of the handlers that
\* have the name
Flag(notified, handlers, handler_name, host) ==
    [i \in DOMAIN notified |->
       IF handlers[i].name = handler_name THEN Append(notified[i], host)
       ELSE notified[i]]

\* the calls of _flag_handler of one task, in order: for every host, every
\* name of task.notify
FlagCalls(order, notify) ==
    [i \in 1..(Len(order) * Len(notify)) |->
       [host |-> order[((i - 1) \div Len(notify)) + 1],
        name |-> notify[((i - 1) % Len(notify)) + 1]]]

\* the calls are made until one raises: notified_by afterwards, and the name
\* that was not defined ("" when every name was)
RECURSIVE FlagAll(_, _, _, _)
FlagAll(notified, handlers, calls, module_vars) ==
    IF calls = <<>> THEN [notified_by |-> notified, undefined |-> ""]
    ELSE LET handler_name == template(Head(calls).name, module_vars)
         IN  IF Found(handlers, handler_name)
             THEN FlagAll(Flag(notified, handlers, handler_name, Head(calls).host),
                          handlers, Tail(calls), module_vars)
             ELSE [notified_by |-> notified, undefined |-> handler_name]

\* the orders in which a dict may yield the hosts
Orders(S) == { o \in [1..Cardinality(S) -> S] : Range(o) = S }

\* the outcomes of the notify loop of _run_task
Flagged ==
    { FlagAll(notified_by, play.handlers, FlagCalls(o, task.notify),
              task.module_vars) : o \in Orders(NotifyHosts(results)) }

\* the handlers of task.notify are flagged for the hosts that changed, and
\* _run_task returns
Notify ==
    /\ pc = "notify"
    /\ \E out \in Flagged :
          /\ out.undefined = ""
          /\ notified_by' = out.notified_by
    /\ results' = NoResults
    /\ hosts_to_poll' = {}
    /\ pc' = "task_end"
    /\ UNCHANGED << playbook, playIdx, taskIdx, handlerIdx, is_handler,
                    vars_files, SETUP_CACHE, stats, restrictions, events,
                    on_failed, computeCalls, pollerCalls, error, run_results >>

\* _flag_handler finds no handler of the name: AnsibleError leaves run()
NotifyUndefined ==
    /\ pc = "notify"
    /\ \E out \in Flagged :
          /\ out.undefined # ""
          /\ notified_by' = out.notified_by
          /\ error' = [type |-> "AnsibleError", msg |-> out.undefined]
    /\ pc' = "error"
    /\ UNCHANGED << playbook, playIdx, taskIdx, handlerIdx, is_handler,
                    vars_files, SETUP_CACHE, stats, restrictions, results,
                    hosts_to_poll, events, on_failed, computeCalls,
                    pollerCalls, run_results >>

\* a faulty variant: the handler loop is entered after every task
AfterTaskHandlers == "handler_loop"

\* where _run_play goes on after a task: with the next task of the task loop
AfterTask == "task_loop"

\* _run_task of a task returns: the task loop goes on
TaskEnd ==
    /\ pc = "task_end"
    /\ ~is_handler
    /\ taskIdx' = taskIdx + 1
    /\ pc' = AfterTask
    /\ UNCHANGED << playbook, playIdx, handlerIdx, is_handler, vars_files,
                    SETUP_CACHE, stats, restrictions, results, hosts_to_poll,
                    notified_by, events, on_failed, computeCalls, pollerCalls,
                    error, run_results >>

\* how often the handler of the current iteration was started in this play
HandlerStarts ==
    Cardinality({ i \in DOMAIN events :
                    /\ events[i].ev = "on_task_start"
                    /\ events[i].is_handler
                    /\ events[i].play = playIdx
                    /\ events[i].name = play.handlers[handler].name })

\* a faulty variant: a handler is run once for every entry of its notified_by
NextHandlerPerEntry(i) ==
    IF HandlerStarts < Len(notified_by[handler]) THEN i ELSE i + 1

\* the handler loop advances to the next handler
NextHandler(i) == i + 1

\* a faulty variant: the restriction of the handler stays in force
HandlerLiftMissing == restrictions

\* the restriction stack after a handler ran: the restriction of the handler
\* loop is lifted
HandlerLift == lift_restriction

\* _run_task of a handler returns: its restriction is lifted and the handler
\* loop goes on
HandlerEnd ==
    /\ pc = "task_end"
    /\ is_handler
    /\ restrictions' = HandlerLift
    /\ handlerIdx' = NextHandler(handlerIdx)
    /\ is_handler' = FALSE
    /\ pc' = "handler_loop"
    /\ UNCHANGED << playbook, playIdx, taskIdx, vars_files, SETUP_CACHE,
                    stats, results, hosts_to_poll, notified_by, events,
                    on_failed, computeCalls, pollerCalls, error, run_results >>

\* ----------------------------------------------------------- specification
Next ==
    \/ Start
    \/ PlayStart
    \/ Summarize
    \/ SetupBegin
    \/ SetupRunner
    \/ SetupFold
    \/ TaskNext
    \/ TasksDone
    \/ HandlerRun
    \/ HandlerSkip
    \/ PlayEnd
    \/ TaskStart
    \/ RunnerRun
    \/ RunnerRunAsync
    \/ AsyncFold
    \/ AsyncPoll
    \/ TaskFold
    \/ FactMergeKeyError
    \/ Notify
    \/ NotifyUndefined
    \/ TaskEnd
    \/ HandlerEnd

Spec == Init /\ [][Next]_vars

\* ------------------------------------------------------------------ claims
\* the restriction that is in force
Top == restrictions[Len(restrictions)]

Excluded == stats.failures \cup stats.dark

\* a Runner is about to run against the restricted inventory
Dispatching == pc \in {"setup_runner", "runner"}

\* C1: whenever a setup step, a task or a handler is dispatched, no host of
\* the restriction pushed for it, and no host the Runner runs against, is in
\* stats.failures or stats.dark
C1_HostExclusion ==
    Dispatching =>
        /\ Range(Top) \cap Excluded = {}
        /\ DispatchSet \cap Excluded = {}

\* a handler is dispatched in the second play to a host, while a host that
\* notified it is excluded
C1_Witness ==
    /\ pc = "runner"
    /\ is_handler
    /\ playIdx = 2
    /\ DispatchSet # {}
    /\ Range(notified_by[handler]) \cap Excluded # {}

\* C2: no per-host result aborts the run: run() ends with an error only for
\* a configuration error, and when it returns it has gone through every play
\* and returns a summary for every processed host
C2_NeverAborts ==
    /\ pc = "error" => error.type = "AnsibleError"
    /\ pc = "done" =>
          /\ playIdx > Len(playbook)
          /\ DOMAIN run_results = stats.processed

\* the task events of the log
TaskEvents == { i \in DOMAIN events : events[i].ev = "on_task_start" }

\* the task or handler an on_task_start event is about
EventTask(e) ==
    LET p == playbook[e.play]
        list == IF e.is_handler THEN p.handlers ELSE p.tasks
    IN  list[CHOOSE i \in DOMAIN list : list[i].name = e.name]

\* the names of task.notify that no handler of the play has
Undefined(p, t) ==
    { template(t.notify[k], t.module_vars) : k \in DOMAIN t.notify } \
    { p.handlers[i].name : i \in DOMAIN p.handlers }

\* C3 as stated: a run in which a task with an undefined notify entry was
\* executed does not complete
C3_UndefinedAlwaysFatal ==
    pc = "done" =>
        \A i \in TaskEvents :
            Undefined(playbook[events[i].play], EventTask(events[i])) = {}

\* the first name of task.notify that no handler of the play has
FirstUndefined(p, t) ==
    LET bad == { k \in DOMAIN t.notify :
                   template(t.notify[k], t.module_vars) \in Undefined(p, t) }
    IN  template(t.notify[CHOOSE k \in bad : \A j \in bad : k <= j],
                 t.module_vars)

\* C3, amended: when the notify step of a task that has an undefined notify
\* entry finds a contacted host that reports changed, the step ends run()
\* with the configuration error naming the first undefined entry, and leaves
\* the stats as they were
C3_UndefinedFatalWhenFlagged ==
    [][ ( /\ pc = "notify"
          /\ Undefined(play, task) # {}
          /\ \E h \in DOMAIN results.contacted :
                "changed" \in DOMAIN results.contacted[h]
                /\ results.contacted[h].changed )
        => ( /\ pc' = "error"
             /\ error' = [type |-> "AnsibleError",
                          msg |-> FirstUndefined(play, task)]
             /\ stats' = stats ) ]_vars

\* run() ended with the error that names the undefined handler X
C3_Witness ==
    /\ pc = "error"
    /\ error = [type |-> "AnsibleError", msg |-> "X"]
    /\ Undefined(play, task) = {"X"}

\* the starts of handler n in play p
Starts(p, n) ==
    { i \in TaskEvents :
        events[i].is_handler /\ events[i].play = p /\ events[i].name = n }

\* C4: within a play a handler is started at most once, and the hosts it is
\* dispatched to hold no host twice
C4_HandlerAtMostOnce ==
    /\ \A p \in DOMAIN playbook :
       \A k \in DOMAIN playbook[p].handlers :
          Cardinality(Starts(p, playbook[p].handlers[k].name)) <= 1
    /\ (pc = "runner" /\ is_handler) =>
          \A i, j \in DOMAIN Top : Top[i] = Top[j] => i = j

\* a handler that a host notified twice has run
C4_Witness ==
    /\ pc = "task_end"
    /\ is_handler
    /\ \E i, j \in DOMAIN notified_by[handler] :
          i # j /\ notified_by[handler][i] = notified_by[handler][j]

\* the hosts appended to notified_by of handler i by a step
Appended(i) ==
    { notified_by'[i][j] : j \in (Len(notified_by[i]) + 1)..Len(notified_by'[i]) }

\* C5: a host is appended to notified_by of a handler only by the notify step
\* of a task whose notify names the handler and for which the host was
\* contacted and reported changed; and a handler is dispatched to exactly the
\* hosts of its notified_by that are neither failed nor dark
C5_HandlerDispatchSet ==
    /\ [][ pc # "play_loop" =>
             \A i \in DOMAIN notified_by :
                /\ SubSeq(notified_by'[i], 1, Len(notified_by[i])) = notified_by[i]
                /\ Appended(i) # {} =>
                      /\ pc = "notify"
                      /\ \E k \in DOMAIN task.notify :
                            template(task.notify[k], task.module_vars)
                               = play.handlers[i].name
                      /\ \A h \in Appended(i) :
                            /\ h \in DOMAIN results.contacted
                            /\ "changed" \in DOMAIN results.contacted[h]
                            /\ results.contacted[h].changed ]_vars
    /\ [] ( (pc = "runner" /\ is_handler) =>
               /\ Range(Top) = Range(notified_by[handler]) \ Excluded
               /\ DispatchSet = Range(notified_by[handler]) \ Excluded )

\* a handler that two hosts notified is dispatched to one of them, the other
\* being excluded
C5_Witness ==
    /\ pc = "runner"
    /\ is_handler
    /\ Cardinality(Range(notified_by[handler])) = 2
    /\ Cardinality(DispatchSet) = 1

\* the place of a callback in a play: on_play_start, the primary setup, the
\* secondary setup, the tasks, the handlers
Phase(e) ==
    CASE e.ev = "on_play_start"      -> 0
      [] e.ev = "on_setup_primary"   -> 1
      [] e.ev = "on_setup_secondary" -> 2
      [] e.ev = "on_task_start" /\ ~e.is_handler -> 3
      [] OTHER -> 4

\* the place of a task in play.tasks, of a handler in play.handlers
ListIndex(e) ==
    LET p == playbook[e.play]
        list == IF e.is_handler THEN p.handlers ELSE p.tasks
    IN  CHOOSE i \in DOMAIN list : list[i].name = e.name

\* callback a belongs before callback b: an earlier play, or the same play
\* and an earlier phase, or an earlier task of the task list
Before(a, b) ==
    \/ a.play < b.play
    \/ /\ a.play = b.play
       /\ \/ Phase(a) < Phase(b)
          \/ Phase(a) = 3 /\ Phase(b) = 3 /\ ListIndex(a) < ListIndex(b)
          \/ Phase(a) = 4 /\ Phase(b) = 4

\* every task of play p was started before the callback at position j
TasksStartedBefore(p, j) ==
    \A k \in DOMAIN playbook[p].tasks :
       \E i \in 1..(j - 1) :
          /\ events[i].ev = "on_task_start"
          /\ ~events[i].is_handler
          /\ events[i].play = p
          /\ events[i].name = playbook[p].tasks[k].name

\* C6: the callback fired last comes after every earlier one in the order of
\* the plays, and within a play in the order setup, tasks in list order,
\* handlers; if it starts a handler, every task of its play has been started,
\* and if it belongs to a later play, every task of the play before; a
\* callback fires only while no task is in progress; and run() moves to the
\* next play only from the end of the handler loop of the play, with the task
\* loop over and no restriction in force
C6_Sequencing ==
    /\ [] ( events # <<>> =>
              LET j == Len(events) IN
              /\ \A i \in 1..(j - 1) : Before(events[i], events[j])
              /\ Phase(events[j]) = 4 => TasksStartedBefore(events[j].play, j)
              /\ events[j].play > 1 =>
                    TasksStartedBefore(events[j].play - 1, j) )
    /\ [][ events' # events =>
             /\ \E e \in { events'[Len(events')] } :
                   events' = Append(events, e) /\ e.play = playIdx
             /\ results = NoResults
             /\ Len(restrictions) = (IF is_handler' THEN 1 ELSE 0) ]_vars
    /\ [][ playIdx' # playIdx =>
             /\ playIdx' = playIdx + 1
             /\ pc = "handler_loop"
             /\ taskIdx > Len(play.tasks)
             /\ handlerIdx > Len(play.handlers)
             /\ restrictions = <<>> ]_vars

\* a run of two plays is over, in which a handler ran in the first play and
\* the second task of the second play was started
C6_Witness ==
    /\ pc = "done"
    /\ \E i, j \in DOMAIN events :
          /\ events[i].play = 1 /\ Phase(events[i]) = 4
          /\ events[j].play = 2 /\ Phase(events[j]) = 3 /\ events[j].name = "T2"

\* C7: of two handlers started in the same play, the one started first is
\* declared first in play.handlers
C7_HandlerOrder ==
    \A i, j \in TaskEvents :
       ( /\ i < j
         /\ events[i].is_handler /\ events[j].is_handler
         /\ events[i].play = events[j].play )
       => ListIndex(events[i]) < ListIndex(events[j])

\* two handlers were started in a play whose task notifies the second handler
\* before the first
C7_Witness ==
    \E i, j \in TaskEvents :
       /\ i < j
       /\ events[i].is_handler /\ events[j].is_handler
       /\ events[i].play = events[j].play
       /\ playbook[events[i].play].tasks[1].notify = <<"$svc", "H1">>

\* C8: whenever run() exits, normally or with an error, no restriction is in
\* force
C8_DepthZeroAtExit ==
    pc \in {"done", "error"} => restrictions = <<>>

\* the task in progress is a polled async task whose poll is over
Polled ==
    /\ pc \in {"returned", "notify"}
    /\ task.async_seconds > 0
    /\ task.async_poll_interval > 0

\* C9: after the poll of an async task every host still in hosts_to_poll is
\* in the results under contacted as {failed: 1, rc: None, msg: "timed out"},
\* on_failed was fired once for it, its result neither needs a cache entry nor
\* notifies, and once the results are folded the host is in stats.failures
C9_AsyncTimeout ==
    Polled =>
       \A h \in hosts_to_poll :
          /\ h \in DOMAIN results.contacted
          /\ results.contacted[h] = [failed |-> 1, rc |-> "None", msg |-> "timed out"]
          /\ on_failed[h] = 1
          /\ h \notin NoEntry(SETUP_CACHE, results)
          /\ h \notin NotifyHosts(results)
          /\ pc = "notify" => h \in stats.failures

\* the results of a polled task were folded with a host that never reported
C9_Witness ==
    /\ Polled
    /\ pc = "notify"
    /\ hosts_to_poll # {}

\* C10: when the results of a fire-and-forget task have been folded, the
\* poller was never called and stats.compute was called once for the task
C10_FoldedOnce ==
    ( /\ pc = "notify"
      /\ task.async_seconds > 0
      /\ task.async_poll_interval = 0 )
    => ( pollerCalls = 0 /\ computeCalls = 1 )

\* the primary setup step of the play is in progress
PrimarySetup == pc \in {"setup", "setup_runner", "setup_fold"} /\ ~vars_files

\* C11: when the primary setup step of a play starts, and until its Runner
\* has returned, the cache is empty: nothing of the play before is in it
C11_NoFactLeak ==
    PrimarySetup => SETUP_CACHE = EmptyCache

\* the primary setup step of the second play starts, after a first play that
\* gathered facts with a task and left a host neither failed nor dark
C11_Witness ==
    /\ pc = "setup"
    /\ ~vars_files
    /\ playIdx = 2
    /\ playbook[1] = PlayFacts
    /\ stats.processed \ Excluded # {}

\* the secondary setup step of the play is in progress
SecondarySetup == pc \in {"setup", "setup_runner", "setup_fold"} /\ vars_files

\* C12: no step of the secondary setup step changes the cache, whatever its
\* Runner returned; the step that ends it folds the results into the stats:
\* the failed hosts join failures, the dark hosts join dark, every host of
\* the results is processed
C12_SecondaryKeepsCache ==
    [][ SecondarySetup =>
          /\ SETUP_CACHE' = SETUP_CACHE
          /\ pc = "setup_fold" =>
                /\ stats' = compute(stats, results)
                /\ stats'.dark = stats.dark \cup results.dark
                /\ stats'.failures = stats.failures \cup
                      { h \in DOMAIN results.contacted :
                          IsFailed(results.contacted[h]) }
                /\ pc' = "task_loop" ]_vars

\* the Runner of the secondary setup step returned facts for a host the cache
\* has no entry for, and for a host the cache has an entry for
C12_Witness ==
    /\ SecondarySetup
    /\ pc = "setup_fold"
    /\ WithFacts(results) \ DOMAIN SETUP_CACHE # {}
    /\ WithFacts(results) \cap DOMAIN SETUP_CACHE # {}

\* C13: no host is both in stats.failures and in stats.dark
C13_ExclusionDisjoint ==
    stats.failures \cap stats.dark = {}

\* the results of a polled async task were folded a second time, with a host
\* that timed out, while another host is dark
C13_Witness ==
    /\ Polled
    /\ pc = "notify"
    /\ hosts_to_poll # {}
    /\ hosts_to_poll \subseteq stats.failures
    /\ stats.dark # {}

\* C14: the step that follows the return of the results of a task leaves, for
\* every contacted host whose result carries ansible_facts, an entry of the
\* host in the cache that holds every returned name with the returned value
\* and every other name the entry had with the value it had, whether or not
\* the host had an entry
C14_TaskFactMerge ==
    [][ pc = "returned" =>
          \A h \in WithFacts(results) :
             LET facts == results.contacted[h].ansible_facts IN
             /\ h \in DOMAIN SETUP_CACHE'
             /\ \A k \in DOMAIN facts : 
                   k \in DOMAIN SETUP_CACHE'[h] /\ SETUP_CACHE'[h][k] = facts[k]
             /\ h \in DOMAIN SETUP_CACHE =>
                   \A k \in DOMAIN SETUP_CACHE[h] \ DOMAIN facts :
                      /\ k \in DOMAIN SETUP_CACHE'[h]
                      /\ SETUP_CACHE'[h][k] = SETUP_CACHE[h][k] ]_vars

\* the handler loop of the play is over
HandlersOver == pc = "handler_loop" /\ handlerIdx > Len(play.handlers)

\* handler j of the play names handler i in its notify
Names(j, i) ==
    \E k \in DOMAIN play.handlers[j].notify :
       template(play.handlers[j].notify[k], play.handlers[j].module_vars)
          = play.handlers[i].name

\* C15 as stated: when the handler loop of a play is over, every handler some
\* host notified in the play, through a task or through another handler, was
\* started in the play
C15_FlaggedHandlerRuns ==
    HandlersOver =>
        \A i \in DOMAIN notified_by :
           notified_by[i] # <<>> =>
              Starts(playIdx, play.handlers[i].name) # {}

\* C15, amended: the handler loop passes over a handler without running it
\* only while nobody has notified it, and a notified handler the loop reaches
\* is run; so when the handler loop is over, a handler that was notified and
\* never started was notified only after the loop had gone by, by a handler
\* declared after it that was started
C15_FlaggedBeforeReachedRuns ==
    /\ [] ( HandlersOver =>
              \A i \in DOMAIN notified_by :
                 notified_by[i] # <<>> =>
                    \/ Starts(playIdx, play.handlers[i].name) # {}
                    \/ \E j \in DOMAIN notified_by :
                          /\ j > i
                          /\ Names(j, i)
                          /\ Starts(playIdx, play.handlers[j].name) # {} )
    /\ [][ (pc = "handler_loop" /\ handlerIdx <= Len(play.handlers)) =>
             IF notified_by[handler] = <<>>
             THEN pc' = "handler_loop" /\ handlerIdx' = handlerIdx + 1
             ELSE pc' = "task_start" /\ is_handler' /\ handlerIdx' = handlerIdx
         ]_vars

\* the handler loop is over: a handler that a task notified was started, and
\* a handler that only a handler declared after it notified was not
C15_Witness ==
    /\ HandlersOver
    /\ \E i, k \in DOMAIN notified_by :
          /\ notified_by[i] # <<>> /\ notified_by[k] # <<>>
          /\ Starts(playIdx, play.handlers[i].name) = {}
          /\ Starts(playIdx, play.handlers[k].name) # {}

\* C16: the step that ends the primary setup step leaves a cache whose hosts
\* are the contacted hosts that returned ansible_facts, each with exactly the
\* facts returned for it
C16_PrimaryFillsCache ==
    [][ (PrimarySetup /\ pc = "setup_fold") =>
          /\ DOMAIN SETUP_CACHE' = WithFacts(results)
          /\ \A h \in WithFacts(results) :
                SETUP_CACHE'[h] = results.contacted[h].ansible_facts ]_vars

\* the primary setup step of the first play is over: h1 returned facts and
\* has them as its entry, h2 was contacted, returned none and has no entry
C16_Witness ==
    /\ pc = "task_loop"
    /\ playIdx = 1
    /\ taskIdx = 1
    /\ Len(play.vars_files) = 0
    /\ DOMAIN SETUP_CACHE = {"h1"}
    /\ SETUP_CACHE["h1"] = SetupFacts
    /\ "h2" \in stats.processed \ stats.dark

\* a step that lifts a restriction
Lifting ==
    \/ pc \in {"setup_fold", "returned"}
    \/ pc = "task_end" /\ is_handler

\* C17: at most two restrictions are in force, and the second only while a
\* handler runs; none is in force before on_play_start of a play, after the
\* last play and when run() has returned; a step changes the stack only by
\* pushing one restriction on top or by lifting the top one, and a step that
\* lifts finds a restriction to lift
C17_RestrictionNesting ==
    /\ [] ( /\ Len(restrictions) <= 2
            /\ Len(restrictions) = 2 => is_handler
            /\ pc \in {"start", "play_loop", "done"} => restrictions = <<>> )
    /\ [][ /\ restrictions' # restrictions =>
                \/ /\ Len(restrictions') = Len(restrictions) + 1
                   /\ SubSeq(restrictions', 1, Len(restrictions)) = restrictions
                \/ /\ restrictions # <<>>
                   /\ restrictions' =
                         SubSeq(restrictions, 1, Len(restrictions) - 1)
           /\ Lifting =>
                /\ restrictions # <<>>
                /\ restrictions' =
                      SubSeq(restrictions, 1, Len(restrictions) - 1) ]_vars

\* in the second play a handler is dispatched under two restrictions
C17_Witness ==
    /\ pc = "runner"
    /\ playIdx = 2
    /\ Len(restrictions) = 2

\* a play is in progress
InPlay == pc \notin {"start", "play_loop", "done"}

\* C18: a host gets an entry in the cache only by a step that stores the
\* results of a setup step or of a task in which the host is contacted; so
\* every host of the cache is a processed host of the pattern of the play
C18_CacheKeysContacted ==
    /\ [][ \A h \in DOMAIN SETUP_CACHE' \ DOMAIN SETUP_CACHE :
              /\ pc \in {"setup_fold", "returned"}
              /\ h \in DOMAIN results.contacted ]_vars
    /\ [] ( InPlay =>
              /\ DOMAIN SETUP_CACHE \subseteq stats.processed
              /\ DOMAIN SETUP_CACHE \subseteq play.hosts )

\* the primary setup step of the first play is over: h1 has an entry, and h2,
\* which was dark, has none
C18_Witness ==
    /\ pc = "setup"
    /\ vars_files
    /\ playIdx = 1
    /\ DOMAIN SETUP_CACHE = {"h1"}
    /\ "h2" \in stats.dark

\* the callbacks ev fired in play p
Fired(p, ev) ==
    { i \in DOMAIN events : events[i].play = p /\ events[i].ev = ev }

\* the secondary setup steps play p is to run
Secondaries(p) == IF Len(playbook[p].vars_files) > 0 THEN 1 ELSE 0

\* callback e is the last of the setup steps of its play
SetupComplete(e) ==
    \/ e.ev = "on_setup_secondary"
    \/ e.ev = "on_setup_primary" /\ Secondaries(e.play) = 0
    \/ e.ev = "on_task_start"

\* C19: on_setup_primary fires right after on_play_start of its play and
\* nowhere else; on_setup_secondary fires right after on_setup_primary of its
\* play, in a play that has vars_files, and nowhere else; and a task of the
\* play is started, the next play is started or run() returns only when the
\* callback fired last ends the setup steps of its play: so every play has
\* exactly one primary setup step, exactly one secondary setup step when it
\* has vars_files and none when it has not, before all of its tasks
C19_SetupSteps ==
    [][ /\ events' # events =>
             LET e == events'[Len(events')] IN
             CASE e.ev = "on_play_start" ->
                     events = <<>> \/ SetupComplete(events[Len(events)])
               [] e.ev = "on_setup_primary" ->
                     /\ events # <<>>
                     /\ events[Len(events)].ev = "on_play_start"
                     /\ events[Len(events)].play = e.play
               [] e.ev = "on_setup_secondary" ->
                     /\ events # <<>>
                     /\ events[Len(events)].ev = "on_setup_primary"
                     /\ events[Len(events)].play = e.play
                     /\ Secondaries(e.play) = 1
               [] OTHER ->
                     /\ events # <<>>
                     /\ events[Len(events)].play = e.play
                     /\ SetupComplete(events[Len(events)])
        /\ (pc' = "done" /\ pc # "done") =>
             /\ events # <<>>
             /\ events[Len(events)].play = Len(playbook)
             /\ SetupComplete(events[Len(events)]) ]_vars

\* a run of two plays is over: the first, which has vars_files and neither
\* task nor handler, ran both setup steps; the second, which has no
\* vars_files, ran the primary one only
C19_Witness ==
    /\ pc = "done"
    /\ Len(playbook) = 2
    /\ playbook[1] = PlayEmpty
    /\ Len(playbook[2].vars_files) = 0
    /\ Cardinality(Fired(1, "on_setup_secondary")) = 1
    /\ Cardinality(Fired(2, "on_setup_primary")) = 1

\* a Runner run, a Runner async launch or a Poller wait is in progress
InFlight == pc \in {"setup_runner", "runner", "poll"}

\* the steps of _run_play and _run_task between the fact merge of a task and
\* the Runner of the next task or handler
BetweenTasks ==
    pc \in {"notify", "task_end", "task_loop", "handler_loop", "task_start"}

\* C20: a step that a Runner or a Poller takes leaves the cache and the stats
\* as they are; when _run_task goes on after the results of a task, the cache
\* holds every returned fact; and no step from there to the Runner of the
\* next task or handler changes the cache, so that Runner reads the merged
\* cache
C20_WritesBetweenRunnerCalls ==
    [][ /\ InFlight => (SETUP_CACHE' = SETUP_CACHE /\ stats' = stats)
        /\ (pc = "returned" /\ pc' = "notify") =>
              \A h \in WithFacts(results) :
                 /\ h \in DOMAIN SETUP_CACHE'
                 /\ \A k \in DOMAIN results.contacted[h].ansible_facts :
                       /\ k \in DOMAIN SETUP_CACHE'[h]
                       /\ SETUP_CACHE'[h][k] =
                             results.contacted[h].ansible_facts[k]
        /\ BetweenTasks => SETUP_CACHE' = SETUP_CACHE ]_vars

\* the Runner of the second task of a play is about to run, and the cache
\* holds for a host the facts of the setup step with those the first task
\* returned merged in
C20_Witness ==
    /\ pc = "runner"
    /\ ~is_handler
    /\ taskIdx = 2
    /\ \E h \in DOMAIN SETUP_CACHE :
          SETUP_CACHE[h] = MergeFacts(SetupFacts, TaskFacts)
====
